---- MODULE Spec2Model ----
(***************************************************************************)
(* Model of scduck.SCDTable (src/scduck/table.py): an SCD Type 2 table     *)
(* kept in DuckDB.  The versioned table and the sync metadata are sets of  *)
(* rows; SCDTable.sync is modelled statement by statement, inside one      *)
(* transaction, with SQL's three-valued logic for the value comparison     *)
(* and the primary key (keys, valid_from) enforced on every write.         *)
(***************************************************************************)
EXTENDS Integers, FiniteSets, Sequences, TLC

\* ---------------------------------------------------------------- bounds
\* Calendar days are 1..MaxDate.
MaxDate == 3

\* ------------------------------------------------------------ value space
\* SQL NULL in a VARCHAR value column.
NULL == "NULL"
\* SQL NULL in a DATE column (valid_to of an open row, or a failed LEFT JOIN).
NULLDATE == 0
\* A date string that does not parse as a calendar date.
BadDate == -1

Dates == 1..MaxDate
\* Key tuples (keys=["id"] in the test fixture).
Keys == {"A"}
\* Value tuples <<name, price>> (values=["name", "price"] in the fixture).
Values == {<<"w", "9">>, <<"g", "9">>, <<"w", NULL>>}
NullValues == <<NULL, NULL>>

\* The relations the classification creates with CREATE TEMP TABLE.
TempTables == {"_covering", "_next", "_prev"}

\* The declared value columns, by position in v.
ValueColumns == {1, 2}

\* A snapshot: rows [k, v] with unique, non-NULL keys.
Snapshots ==
    {s \in SUBSET [k : Keys, v : Values] :
        \A x \in s, y \in s : x.k = y.k => x = y}

\* ---------------------------------------------------- three-valued logic
\* "T", "F" and "U" (SQL's unknown/NULL boolean).
Not3(a) == IF a = "T" THEN "F" ELSE IF a = "F" THEN "T" ELSE "U"
And3(a, b) ==
    IF a = "F" \/ b = "F" THEN "F"
    ELSE IF a = "T" /\ b = "T" THEN "T" ELSE "U"
Or3(a, b) ==
    IF a = "T" \/ b = "T" THEN "T"
    ELSE IF a = "F" /\ b = "F" THEN "F" ELSE "U"
IsNull3(a) == IF a = NULL THEN "T" ELSE "F"
Eq3(a, b) == IF a = NULL \/ b = NULL THEN "U" ELSE IF a = b THEN "T" ELSE "F"

\* The conjunct without its IS NULL disjunct: plain SQL equality.
col_same_strict(i, s) == Eq3(i, s)

\* One conjunct of same_expr: ((i_c IS NULL AND sm_c IS NULL) OR i_c = sm_c).
col_same(i, s) == Or3(And3(IsNull3(i), IsNull3(s)), Eq3(i, s))

\* same_expr: the conjunction over the value columns.
same_expr(iv, sv) == And3(col_same(iv[1], sv[1]), col_same(iv[2], sv[2]))

\* WHERE (same_expr) and WHERE NOT (same_expr): a row passes only on "T".
IsSame(c) == same_expr(c.i_v, c.sm_v) = "T"
IsNotSame(c) == Not3(same_expr(c.i_v, c.sm_v)) = "T"

\* ------------------------------------------------------------- intervals
\* valid_from <= D AND (valid_to > D OR valid_to IS NULL)
Covers(r, D) ==
    r.valid_from <= D /\ (r.valid_to = NULLDATE \/ r.valid_to > D)

KeysOf(s) == {x.k : x \in s}

SetMin(S) == CHOOSE x \in S : \A y \in S : x <= y

\* ---------------------------------------------------------- classifier
\* A _covering whose join leaves out the valid_to condition.
covering_started(t, D, S) ==
    {[k |-> i.k, i_v |-> i.v, sm_valid_from |-> r.valid_from,
      sm_valid_to |-> r.valid_to, sm_v |-> r.v] :
        <<i, r>> \in {p \in S \X t : p[1].k = p[2].k /\ p[2].valid_from <= D}}
    \cup
    {[k |-> i.k, i_v |-> i.v, sm_valid_from |-> NULLDATE,
      sm_valid_to |-> NULLDATE, sm_v |-> NullValues] :
        i \in {j \in S : \A r \in t : ~(r.k = j.k /\ r.valid_from <= D)}}

\* CREATE TEMP TABLE _covering: _incoming LEFT JOIN the stored rows covering D.
covering(t, D, S) ==
    {[k |-> i.k, i_v |-> i.v, sm_valid_from |-> r.valid_from,
      sm_valid_to |-> r.valid_to, sm_v |-> r.v] :
        <<i, r>> \in {p \in S \X t : p[1].k = p[2].k /\ Covers(p[2], D)}}
    \cup
    {[k |-> i.k, i_v |-> i.v, sm_valid_from |-> NULLDATE,
      sm_valid_to |-> NULLDATE, sm_v |-> NullValues] :
        i \in {j \in S : \A r \in t : ~(r.k = j.k /\ Covers(r, D))}}

\* SELECT i_keys FROM _covering WHERE sm_valid_from IS NOT NULL
CoveredKeys(cov) == {c.k : c \in {x \in cov : x.sm_valid_from # NULLDATE}}

\* A _next without DISTINCT ON: every later row of an uncovered key.
next_all(t, D, S, cov) ==
    {[k |-> i.k, i_v |-> i.v, sm_valid_from |-> r.valid_from,
      sm_valid_to |-> r.valid_to, sm_v |-> r.v] :
        <<i, r>> \in {p \in S \X t :
            /\ p[1].k = p[2].k
            /\ p[2].valid_from > D
            /\ p[1].k \notin CoveredKeys(cov)}}

\* CREATE TEMP TABLE _next: per uncovered key, the stored row with the
\* smallest valid_from > D (DISTINCT ON keys ORDER BY keys, valid_from).
next(t, D, S, cov) ==
    {[k |-> i.k, i_v |-> i.v, sm_valid_from |-> r.valid_from,
      sm_valid_to |-> r.valid_to, sm_v |-> r.v] :
        <<i, r>> \in {p \in S \X t :
            /\ p[1].k = p[2].k
            /\ p[2].valid_from > D
            /\ p[1].k \notin CoveredKeys(cov)
            /\ \A q \in t : (q.k = p[2].k /\ q.valid_from > D)
                                => p[2].valid_from <= q.valid_from}}

\* A _prev that does not leave out the keys of _next.
prev_any(t, D, S, cov, nxt) ==
    {[k |-> i.k, i_v |-> i.v] :
        i \in {j \in S :
            /\ j.k \notin CoveredKeys(cov)
            /\ \E r \in t : /\ r.k = j.k
                            /\ r.valid_to # NULLDATE
                            /\ r.valid_to <= D}}

\* CREATE TEMP TABLE _prev: uncovered keys without a next row that have a
\* stored row with valid_to <= D; only the incoming columns are selected.
prev(t, D, S, cov, nxt) ==
    {[k |-> i.k, i_v |-> i.v] :
        i \in {j \in S :
            /\ j.k \notin CoveredKeys(cov)
            /\ j.k \notin KeysOf(nxt)
            /\ \E r \in t : /\ r.k = j.k
                            /\ r.valid_to # NULLDATE
                            /\ r.valid_to <= D}}

\* The case 6 SELECT looking at open rows only.
deletions_open(t, D, S) ==
    {r \in t : /\ r.valid_from <= D
               /\ r.valid_to = NULLDATE
               /\ r.k \notin KeysOf(S)}

\* Case 6 SELECT: stored rows covering D whose key is NOT IN _incoming.
deletions(t, D, S) ==
    {r \in t : Covers(r, D) /\ r.k \notin KeysOf(S)}

\* The classification reads of sync, all taken before the first write.
Classify(t, D, S) ==
    LET cov == covering(t, D, S)
        nxt == next(t, D, S, cov)
        prv == prev(t, D, S, cov, nxt)
    IN  [covering |-> cov,
         next |-> nxt,
         prev |-> prv,
         unchanged |-> {c \in cov : c.sm_valid_from # NULLDATE /\ IsSame(c)},
         changed_covered |->
             {c \in cov : c.sm_valid_from # NULLDATE /\ IsNotSame(c)},
         extend_back |-> {n \in nxt : IsSame(n)},
         insert_before_next |-> {n \in nxt : IsNotSame(n)},
         reappeared |-> prv,
         new_records |->
             {i \in S : /\ i.k \notin CoveredKeys(cov)
                        /\ i.k \notin KeysOf(nxt)
                        /\ i.k \notin KeysOf(prv)},
         deletions |-> deletions(t, D, S)]

NoClass == Classify({}, 1, {})

\* ------------------------------------------------------------- mutator
\* INSERT INTO tbl SELECT ...: ins holds one pair <<source row, produced
\* row>> per row of the SELECT.  The statement fails as a whole when a
\* produced (keys, valid_from) is already stored or is produced twice.
Insert(t, ins) ==
    LET clash ==
            \/ \E x \in ins, r \in t :
                   x[2].k = r.k /\ x[2].valid_from = r.valid_from
            \/ \E x \in ins, y \in ins :
                   /\ x # y
                   /\ x[2].k = y[2].k
                   /\ x[2].valid_from = y[2].valid_from
    IN  IF clash THEN [ok |-> FALSE, tbl |-> t]
        ELSE [ok |-> TRUE, tbl |-> t \cup {x[2] : x \in ins}]

\* Case 2 without its closing UPDATE.
Case2_noclose(t, c, D) ==
    IF c.changed_covered = {} THEN [ok |-> TRUE, tbl |-> t]
    ELSE Insert(t,
            {<<x, [k |-> x.k, v |-> x.i_v,
                   valid_from |-> D, valid_to |-> x.sm_valid_to]>> :
                x \in c.changed_covered})

\* Case 2: close the changed covering rows at D, then insert [D, sm_valid_to).
Case2(t, c, D) ==
    IF c.changed_covered = {} THEN [ok |-> TRUE, tbl |-> t]
    ELSE
      LET hit(r) == \E x \in c.covering :
                        /\ r.k = x.k
                        /\ r.valid_from = x.sm_valid_from
                        /\ x.sm_valid_from # NULLDATE
                        /\ IsNotSame(x)
          closed == {IF hit(r) THEN [r EXCEPT !.valid_to = D] ELSE r : r \in t}
      IN  Insert(closed,
            {<<x, [k |-> x.k, v |-> x.i_v,
                   valid_from |-> D, valid_to |-> x.sm_valid_to]>> :
                x \in c.changed_covered})

\* Case 3a inserting [D, next.valid_from) as case 3b does, instead of
\* moving the next row's valid_from.
Case3a_insert(t, c, D) ==
    IF c.extend_back = {} THEN [ok |-> TRUE, tbl |-> t]
    ELSE Insert(t,
            {<<n, [k |-> n.k, v |-> n.i_v,
                   valid_from |-> D, valid_to |-> n.sm_valid_from]>> :
                n \in {q \in c.next : IsSame(q)}})

\* Case 3a: UPDATE valid_from of the next row to D (a primary-key column).
Case3a(t, c, D) ==
    IF c.extend_back = {} THEN [ok |-> TRUE, tbl |-> t]
    ELSE
      LET hit(r) == \E n \in c.next :
                        /\ r.k = n.k
                        /\ r.valid_from = n.sm_valid_from
                        /\ IsSame(n)
          moved == {r \in t : hit(r)}
          kept  == t \ moved
          res   == Insert(kept,
            {<<r, [r EXCEPT !.valid_from = D]>> :
                r \in moved})
      IN  IF res.ok THEN res ELSE [ok |-> FALSE, tbl |-> t]

\* Case 3b: insert [D, next.valid_from) before a next row that differs.
Case3b(t, c, D) ==
    IF c.insert_before_next = {} THEN [ok |-> TRUE, tbl |-> t]
    ELSE Insert(t,
            {<<n, [k |-> n.k, v |-> n.i_v,
                   valid_from |-> D, valid_to |-> n.sm_valid_from]>> :
                n \in {q \in c.next : IsNotSame(q)}})

\* An end date taken from the calendar: the day after D when a later
\* synced date lacks the key.
EndDate_nextday(t, m, key, D) ==
    IF \E y \in m : /\ y.as_of_date > D
                     /\ ~\E s \in t : s.k = key /\ Covers(s, y.as_of_date)
      THEN D + 1 ELSE NULLDATE

\* The scalar subquery of cases 4 and 5: MIN(as_of_date) over the metadata
\* dates > D at which no stored row covers the key; NULL when there is none.
EndDate(t, m, key, D) ==
    LET open == {x.as_of_date : x \in
                    {y \in m : /\ y.as_of_date > D
                               /\ ~\E s \in t : s.k = key /\ Covers(s, y.as_of_date)}}
    IN  IF open = {} THEN NULLDATE ELSE SetMin(open)

\* A case 4 that writes nothing for the reappeared keys.
Case4_skip(t, m, c, D) == [ok |-> TRUE, tbl |-> t]

\* Case 4: insert the reappeared keys.
Case4(t, m, c, D) ==
    IF c.reappeared = {} THEN [ok |-> TRUE, tbl |-> t]
    ELSE Insert(t,
            {<<p, [k |-> p.k, v |-> p.i_v, valid_from |-> D,
                   valid_to |-> EndDate(t, m, p.k, D)]>> :
                p \in c.prev})

\* Case 5: insert the brand-new keys.
Case5(t, m, c, D, S) ==
    IF c.new_records = {} THEN [ok |-> TRUE, tbl |-> t]
    ELSE Insert(t,
            {<<i, [k |-> i.k, v |-> i.v, valid_from |-> D,
                   valid_to |-> EndDate(t, m, i.k, D)]>> :
                i \in {j \in S : /\ j.k \notin CoveredKeys(c.covering)
                                 /\ j.k \notin KeysOf(c.next)
                                 /\ j.k \notin KeysOf(c.prev)}})

\* A deletion that only closes the row: the re-open join finds no date.
ReopenDates_none(m, d, D) == {}

\* The dates the re-open joins a deleted row with: later synced dates inside
\* the row's original span.
ReopenDates(m, d, D) ==
    {x.as_of_date : x \in
        {y \in m : /\ y.as_of_date > D
                   /\ (d.valid_to = NULLDATE \/ y.as_of_date < d.valid_to)}}

\* A deletion that removes the rows it should close.
Case6_remove(t, m, c, D, S) ==
    [ok |-> TRUE, tbl |-> t \ c.deletions]

\* Case 6: close the deleted rows at D, then re-open each from the smallest
\* later synced date of its span unless a row of the key starts there.
Case6(t, m, c, D, S) ==
    IF c.deletions = {} THEN [ok |-> TRUE, tbl |-> t]
    ELSE
      LET closed == {IF Covers(r, D) /\ r.k \notin KeysOf(S)
                       THEN [r EXCEPT !.valid_to = D] ELSE r : r \in t}
          src == {d \in c.deletions :
                    /\ ReopenDates(m, d, D) # {}
                    /\ ~\E s \in closed :
                          /\ s.k = d.k
                          /\ s.valid_from = SetMin(ReopenDates(m, d, D))}
      IN  Insert(closed,
            {<<d, [k |-> d.k, v |-> d.v,
                   valid_from |-> SetMin(ReopenDates(m, d, D)),
                   valid_to |-> d.valid_to]>> :
                d \in src})

\* A plain INSERT INTO meta that keeps the date's earlier row.
UpsertMeta_append(m, D, n) ==
    m \cup {[as_of_date |-> D, row_count |-> n]}

\* INSERT OR REPLACE INTO meta (as_of_date, synced_at, row_count); synced_at
\* is the wall clock and is left out.
UpsertMeta(m, D, n) ==
    {x \in m : x.as_of_date # D} \cup {[as_of_date |-> D, row_count |-> n]}

\* ------------------------------------------------------------- queries
\* A read whose upper end is closed: valid_to >= D.
get_data_rows_closed(t, D) ==
    {r \in t : /\ r.valid_from <= D
               /\ (r.valid_to = NULLDATE \/ r.valid_to >= D)}

\* get_data: the stored rows covering the date ...
get_data_rows(t, D) == {r \in t : Covers(r, D)}
\* ... projected on the key and value columns.
get_data(t, D) == {[k |-> r.k, v |-> r.v] : r \in get_data_rows(t, D)}

\* get_synced_dates (as a set; the query orders it ascending).
get_synced_dates(m) == {x.as_of_date : x \in m}

get_record_count(t) == Cardinality(t)

\* get_synced_dates as the list it returns: SELECT as_of_date FROM meta
\* ORDER BY as_of_date, one entry per metadata row.
RECURSIVE get_synced_dates_list(_)
get_synced_dates_list(m) ==
    IF m = {} THEN <<>>
    ELSE LET x == CHOOSE x \in m : \A y \in m : x.as_of_date <= y.as_of_date
         IN  <<x.as_of_date>> \o get_synced_dates_list(m \ {x})

\* The SyncResult built after COMMIT.
SyncResult(c, D, S) ==
    [status |-> "ok",
     date |-> D,
     rows_total |-> Cardinality(S),
     rows_new |-> Cardinality(c.new_records),
     rows_changed |-> Cardinality(c.changed_covered)
                        + Cardinality(c.insert_before_next),
     rows_deleted |-> Cardinality(c.deletions),
     rows_unchanged |-> Cardinality(c.unchanged),
     rows_extended_back |-> Cardinality(c.extend_back),
     rows_reappeared |-> Cardinality(c.reappeared)]

NoResult(st) ==
    [status |-> st, date |-> NULLDATE, rows_total |-> 0, rows_new |-> 0,
     rows_changed |-> 0, rows_deleted |-> 0, rows_unchanged |-> 0,
     rows_extended_back |-> 0, rows_reappeared |-> 0]

\* --------------------------------------------------------------- state
VARIABLES
    tbl,            \* the versioned table as the connection sees it
    meta,           \* <table>_sync_metadata as the connection sees it
    committed_tbl,  \* the versioned table as last committed
    committed_meta, \* the metadata as last committed
    pc,             \* position of the sync in flight, "idle" between calls
    date,           \* argument of the sync in flight
    incoming,       \* the relation registered as _incoming
    cls,            \* _covering, _next, _prev and the fetched class sets
    result,         \* what the last call handed to its caller
    supplied,       \* per committed date, the snapshot last synced for it
    again,          \* the call in flight repeats the call that just returned
    columns,        \* the declared value columns _incoming has
    scratch,        \* names of the scratch relations the connection holds
    presence,       \* security_presence as the connection sees it
    committed_presence  \* security_presence as last committed

vars == <<tbl, meta, committed_tbl, committed_meta, pc, date, incoming, cls,
          result, supplied, again, columns, scratch, presence,
          committed_presence>>

\* The snapshot last committed for date D ({} when D was never synced).
SuppliedAt(sup, D) == UNION {x.s : x \in {y \in sup : y.d = D}}

Init ==
    /\ tbl = {}
    /\ meta = {}
    /\ committed_tbl = {}
    /\ committed_meta = {}
    /\ pc = "idle"
    /\ date = NULLDATE
    /\ incoming = {}
    /\ cls = NoClass
    /\ result = NoResult("none")
    /\ supplied = {}
    /\ again = FALSE
    /\ columns = ValueColumns
    /\ scratch = {}
    /\ presence = {}
    /\ committed_presence = {}

\* sync(date, df) up to BEGIN TRANSACTION: convert, normalise, register.
SyncCall(D, S) ==
    /\ pc = "idle"
    /\ UNCHANGED <<presence, committed_presence>>
    /\ scratch' = scratch \cup {"_incoming"}
    /\ columns' = ValueColumns
    /\ date' = D
    /\ incoming' = S
    /\ cls' = NoClass
    /\ result' = NoResult("none")
    /\ again' = (/\ result.status = "ok"
                 /\ result.date = D
                 /\ SuppliedAt(supplied, D) = S)
    /\ pc' = "classify"
    /\ UNCHANGED <<tbl, meta, committed_tbl, committed_meta, supplied>>

\* sync(date, df) with df lacking declared value columns: _normalize_columns
\* keeps only the declared columns it finds (C), so _incoming is registered
\* without the others; they are shown as NULL in the rows of incoming.
SyncCallMissing(D, S, C) ==
    /\ pc = "idle"
    /\ UNCHANGED <<presence, committed_presence>>
    /\ scratch' = scratch \cup {"_incoming"}
    /\ columns' = C
    /\ date' = D
    /\ incoming' = {[k |-> i.k,
                     v |-> [c \in 1 .. 2 |-> IF c \in C THEN i.v[c] ELSE NULL]] :
                        i \in S}
    /\ cls' = NoClass
    /\ result' = NoResult("none")
    /\ again' = FALSE
    /\ pc' = "classify"
    /\ UNCHANGED <<tbl, meta, committed_tbl, committed_meta, supplied>>

\* CREATE TEMP TABLE _covering selects i.<col> for every declared column
\* and casts DATE '<date>': it binds only when _incoming has them all and
\* the date parses.
ClassifyOk(D, C) == D \in Dates /\ C = ValueColumns

\* A classification that leaves the deletion SELECT for later.
ClassifyStep_nodeletions ==
    /\ pc = "classify"
    /\ UNCHANGED <<presence, committed_presence>>
    /\ UNCHANGED columns
    /\ IF ClassifyOk(date, columns) /\ TempTables \cap scratch = {}
         THEN /\ cls' = [Classify(tbl, date, incoming) EXCEPT !.deletions = {}]
              /\ scratch' = scratch \cup TempTables
              /\ pc' = "case2"
         ELSE cls' = cls /\ scratch' = scratch /\ pc' = "except"
    /\ UNCHANGED <<tbl, meta, committed_tbl, committed_meta, date, incoming,
                   result, supplied, again>>

\* The classification statements; the first one fails when it does not bind
\* or when _covering is still there (CREATE TEMP TABLE without IF NOT EXISTS).
ClassifyStep ==
    /\ pc = "classify"
    /\ UNCHANGED <<presence, committed_presence>>
    /\ UNCHANGED columns
    /\ IF ClassifyOk(date, columns) /\ TempTables \cap scratch = {}
         THEN /\ cls' = Classify(tbl, date, incoming)
              /\ scratch' = scratch \cup TempTables
              /\ pc' = "case2"
         ELSE cls' = cls /\ scratch' = scratch /\ pc' = "except"
    /\ UNCHANGED <<tbl, meta, committed_tbl, committed_meta, date, incoming,
                   result, supplied, again>>

\* Case 2: close and insert new version.  A failing statement leaves the block for the
\* except clause with the writes made so far.
Case2Step ==
    /\ pc = "case2"
    /\ UNCHANGED <<presence, committed_presence>>
    /\ UNCHANGED scratch
    /\ UNCHANGED columns
    /\ tbl' = Case2(tbl, cls, date).tbl
    /\ pc' = IF Case2(tbl, cls, date).ok THEN "case3a" ELSE "except"
    /\ UNCHANGED <<meta, committed_tbl, committed_meta, date, incoming, cls,
                   result, supplied, again>>

\* Case 3a: extend backwards.  A failing statement leaves the block for the
\* except clause with the writes made so far.
Case3aStep ==
    /\ pc = "case3a"
    /\ UNCHANGED <<presence, committed_presence>>
    /\ UNCHANGED scratch
    /\ UNCHANGED columns
    /\ tbl' = Case3a(tbl, cls, date).tbl
    /\ pc' = IF Case3a(tbl, cls, date).ok THEN "case3b" ELSE "except"
    /\ UNCHANGED <<meta, committed_tbl, committed_meta, date, incoming, cls,
                   result, supplied, again>>

\* Case 3b: insert before next.  A failing statement leaves the block for the
\* except clause with the writes made so far.
Case3bStep ==
    /\ pc = "case3b"
    /\ UNCHANGED <<presence, committed_presence>>
    /\ UNCHANGED scratch
    /\ UNCHANGED columns
    /\ tbl' = Case3b(tbl, cls, date).tbl
    /\ pc' = IF Case3b(tbl, cls, date).ok THEN "case4" ELSE "except"
    /\ UNCHANGED <<meta, committed_tbl, committed_meta, date, incoming, cls,
                   result, supplied, again>>

\* Case 4: insert reappeared.  A failing statement leaves the block for the
\* except clause with the writes made so far.
Case4Step ==
    /\ pc = "case4"
    /\ UNCHANGED <<presence, committed_presence>>
    /\ UNCHANGED scratch
    /\ UNCHANGED columns
    /\ tbl' = Case4(tbl, meta, cls, date).tbl
    /\ pc' = IF Case4(tbl, meta, cls, date).ok THEN "case5" ELSE "except"
    /\ UNCHANGED <<meta, committed_tbl, committed_meta, date, incoming, cls,
                   result, supplied, again>>

\* Case 5: insert new.  A failing statement leaves the block for the
\* except clause with the writes made so far.
Case5Step ==
    /\ pc = "case5"
    /\ UNCHANGED <<presence, committed_presence>>
    /\ UNCHANGED scratch
    /\ UNCHANGED columns
    /\ tbl' = Case5(tbl, meta, cls, date, incoming).tbl
    /\ pc' = IF Case5(tbl, meta, cls, date, incoming).ok THEN "case6" ELSE "except"
    /\ UNCHANGED <<meta, committed_tbl, committed_meta, date, incoming, cls,
                   result, supplied, again>>

\* Case 6: close deletions and re-open if needed.  A failing statement leaves the block for the
\* except clause with the writes made so far.
Case6Step ==
    /\ pc = "case6"
    /\ UNCHANGED <<presence, committed_presence>>
    /\ UNCHANGED columns
    /\ tbl' = Case6(tbl, meta, cls, date, incoming).tbl
    /\ pc' = IF Case6(tbl, meta, cls, date, incoming).ok THEN "meta" ELSE "except"
    /\ scratch' = IF Case6(tbl, meta, cls, date, incoming).ok
                    THEN scratch
                    ELSE scratch \cup {"_deletions"}
    /\ UNCHANGED <<meta, committed_tbl, committed_meta, date, incoming, cls,
                   result, supplied, again>>

\* Update metadata.
MetaStep ==
    /\ pc = "meta"
    /\ UNCHANGED <<presence, committed_presence>>
    /\ UNCHANGED scratch
    /\ UNCHANGED columns
    /\ meta' = UpsertMeta(meta, date, Cardinality(incoming))
    /\ pc' = "commit"
    /\ UNCHANGED <<tbl, committed_tbl, committed_meta, date, incoming, cls,
                   result, supplied, again>>

\* A COMMIT that is not preceded by the three DROP TABLE statements.
Commit_nodrop ==
    /\ pc = "commit"
    /\ UNCHANGED <<presence, committed_presence>>
    /\ scratch' = scratch \ {"_incoming"}
    /\ columns' = ValueColumns
    /\ committed_tbl' = tbl
    /\ committed_meta' = meta
    /\ result' = SyncResult(cls, date, incoming)
    /\ supplied' = {x \in supplied : x.d # date}
                       \cup {[d |-> date, s |-> incoming]}
    /\ pc' = "idle"
    /\ date' = NULLDATE
    /\ incoming' = {}
    /\ cls' = NoClass
    /\ UNCHANGED <<tbl, meta, again>>

\* DROP the scratch tables, COMMIT, unregister _incoming, return SyncResult.
Commit ==
    /\ pc = "commit"
    /\ UNCHANGED <<presence, committed_presence>>
    /\ scratch' = scratch \ (TempTables \cup {"_incoming"})
    /\ columns' = ValueColumns
    /\ committed_tbl' = tbl
    /\ committed_meta' = meta
    /\ result' = SyncResult(cls, date, incoming)
    /\ supplied' = {x \in supplied : x.d # date}
                       \cup {[d |-> date, s |-> incoming]}
    /\ pc' = "idle"
    /\ date' = NULLDATE
    /\ incoming' = {}
    /\ cls' = NoClass
    /\ UNCHANGED <<tbl, meta, again>>

\* The except clause re-raising without ROLLBACK.
Rollback_norestore ==
    /\ pc = "except"
    /\ UNCHANGED <<presence, committed_presence>>
    /\ scratch' = {}
    /\ columns' = ValueColumns
    /\ result' = NoResult("raised")
    /\ pc' = "idle"
    /\ date' = NULLDATE
    /\ incoming' = {}
    /\ cls' = NoClass
    /\ UNCHANGED <<tbl, meta, committed_tbl, committed_meta, supplied, again>>

\* except: ROLLBACK; raise -- and the finally clause.  The rollback undoes
\* the CREATE TEMP TABLEs of the transaction and finally unregisters
\* _incoming; a _deletions view registered inside the transaction is gone
\* or still bound.
Rollback ==
    /\ pc = "except"
    /\ UNCHANGED <<presence, committed_presence>>
    /\ \E left \in SUBSET (scratch \cap {"_deletions"}) : scratch' = left
    /\ columns' = ValueColumns
    /\ tbl' = committed_tbl
    /\ meta' = committed_meta
    /\ result' = NoResult("raised")
    /\ pc' = "idle"
    /\ date' = NULLDATE
    /\ incoming' = {}
    /\ cls' = NoClass
    /\ UNCHANGED <<committed_tbl, committed_meta, supplied, again>>

\* A call that notes the date in the metadata before converting its input.
SyncUnsupported_recorded(D) ==
    /\ pc = "idle"
    /\ UNCHANGED <<presence, committed_presence>>
    /\ UNCHANGED scratch
    /\ UNCHANGED columns
    /\ meta' = UpsertMeta(meta, D, 0)
    /\ committed_meta' = meta'
    /\ result' = NoResult("TypeError")
    /\ UNCHANGED <<tbl, committed_tbl, pc, date, incoming, cls, supplied,
                   again>>

\* sync(date, df) with df neither a pyarrow Table nor a pandas or polars
\* DataFrame: _to_arrow raises TypeError on the first statement that uses
\* df, before _incoming is registered and before BEGIN TRANSACTION.
SyncUnsupported(D) ==
    /\ pc = "idle"
    /\ UNCHANGED <<presence, committed_presence>>
    /\ UNCHANGED scratch
    /\ UNCHANGED columns
    /\ result' = NoResult("TypeError")
    /\ UNCHANGED <<tbl, meta, committed_tbl, committed_meta, pc, date,
                   incoming, cls, supplied, again>>

\* get_data(date) between two syncs: one SELECT, handed to the caller.
GetData(D) ==
    /\ pc = "idle"
    /\ UNCHANGED <<presence, committed_presence>>
    /\ UNCHANGED scratch
    /\ UNCHANGED columns
    /\ result' = [status |-> "data", date |-> D, rows |-> get_data(tbl, D)]
    /\ UNCHANGED <<tbl, meta, committed_tbl, committed_meta, pc, date,
                   incoming, cls, supplied, again>>

Next ==
    \/ \E D \in Dates \cup {BadDate}, S \in Snapshots : SyncCall(D, S)
    \/ \E D \in Dates : GetData(D)
    \/ \E D \in Dates \cup {BadDate} : SyncUnsupported(D)
    \/ \E D \in Dates, S \in Snapshots, C \in (SUBSET ValueColumns) \ {ValueColumns} :
            SyncCallMissing(D, S, C)
    \/ ClassifyStep
    \/ Case2Step
    \/ Case3aStep
    \/ Case3bStep
    \/ Case4Step
    \/ Case5Step
    \/ Case6Step
    \/ MetaStep
    \/ Commit
    \/ Rollback

Spec == Init /\ [][Next]_vars

\* The same program when no date is synced twice.
NextDistinct ==
    \/ \E D \in Dates \cup {BadDate}, S \in Snapshots :
            D \notin get_synced_dates(committed_meta) /\ SyncCall(D, S)
    \/ \E D \in Dates : GetData(D)
    \/ \E D \in Dates \cup {BadDate} : SyncUnsupported(D)
    \/ \E D \in Dates, S \in Snapshots, C \in (SUBSET ValueColumns) \ {ValueColumns} :
            SyncCallMissing(D, S, C)
    \/ ClassifyStep
    \/ Case2Step
    \/ Case3aStep
    \/ Case3bStep
    \/ Case4Step
    \/ Case5Step
    \/ Case6Step
    \/ MetaStep
    \/ Commit
    \/ Rollback

SpecDistinct == Init /\ [][NextDistinct]_vars

\* The same program when every snapshot synced is the same set of rows.
NextConstant ==
    \/ \E D \in Dates \cup {BadDate}, S \in Snapshots :
            (\A x \in supplied : x.s = S) /\ SyncCall(D, S)
    \/ \E D \in Dates : GetData(D)
    \/ \E D \in Dates \cup {BadDate} : SyncUnsupported(D)
    \/ \E D \in Dates, S \in Snapshots, C \in (SUBSET ValueColumns) \ {ValueColumns} :
            SyncCallMissing(D, S, C)
    \/ ClassifyStep
    \/ Case2Step
    \/ Case3aStep
    \/ Case3bStep
    \/ Case4Step
    \/ Case5Step
    \/ Case6Step
    \/ MetaStep
    \/ Commit
    \/ Rollback

SpecConstant == Init /\ [][NextConstant]_vars

\* A snapshot without NULL in any value column.
NoNulls(S) == \A i \in S : \A c \in ValueColumns : i.v[c] # NULL

\* The same program when the dates synced are strictly increasing and the
\* snapshots hold no NULL.
NextInOrder ==
    \/ \E D \in Dates \cup {BadDate}, S \in Snapshots :
            /\ \A m \in get_synced_dates(committed_meta) : m < D
            /\ NoNulls(S)
            /\ SyncCall(D, S)
    \/ \E D \in Dates : GetData(D)
    \/ \E D \in Dates \cup {BadDate} : SyncUnsupported(D)
    \/ \E D \in Dates, S \in Snapshots, C \in (SUBSET ValueColumns) \ {ValueColumns} :
            SyncCallMissing(D, S, C)
    \/ ClassifyStep
    \/ Case2Step
    \/ Case3aStep
    \/ Case3bStep
    \/ Case4Step
    \/ Case5Step
    \/ Case6Step
    \/ MetaStep
    \/ Commit
    \/ Rollback

SpecInOrder == Init /\ [][NextInOrder]_vars

\* One whole sync(D, S) on table t and metadata m, as a function: the blocks
\* in statement order, and the stored state restored when one of them fails.
SyncFn(t, m, D, S) ==
    LET c   == Classify(t, D, S)
        r2  == Case2(t, c, D)
        r3a == Case3a(r2.tbl, c, D)
        r3b == Case3b(r3a.tbl, c, D)
        r4  == Case4(r3b.tbl, m, c, D)
        r5  == Case5(r4.tbl, m, c, D, S)
        r6  == Case6(r5.tbl, m, c, D, S)
    IN  IF D \in Dates /\ r2.ok /\ r3a.ok /\ r3b.ok /\ r4.ok /\ r5.ok /\ r6.ok
          THEN [ok |-> TRUE, tbl |-> r6.tbl,
                meta |-> UpsertMeta(m, D, Cardinality(S))]
          ELSE [ok |-> FALSE, tbl |-> t, meta |-> m]

\* The (date, snapshot) pairs of sup synced on st in ascending date order.
RECURSIVE InOrder(_, _)
InOrder(sup, st) ==
    IF sup = {} THEN st
    ELSE LET x == CHOOSE y \in sup : \A z \in sup : y.d <= z.d
         IN  InOrder(sup \ {x}, SyncFn(st.tbl, st.meta, x.d, x.s))

\* ---------------------------------------------------------------- claims
\* The rows get_data(D) returns are exactly the rows of snapshot S.
ReturnsExactly(t, D, S) ==
    /\ get_data(t, D) = S
    /\ Cardinality(get_data_rows(t, D)) = Cardinality(S)

\* C1 (as claimed): for every synced date D, get_data(D) returns exactly the
\* snapshot most recently synced for D.
C1_SnapshotFidelity ==
    \A x \in supplied :
        /\ x.d \in get_synced_dates(committed_meta)
        /\ ReturnsExactly(committed_tbl, x.d, x.s)

\* C2 (as claimed): whatever the order in which pairwise distinct dates were
\* synced, the table is the one the ascending order of the same (date,
\* snapshot) pairs yields, so any two orders agree.
C2_OrderIndependence ==
    pc = "idle"
        => committed_tbl = InOrder(supplied, [ok |-> TRUE, tbl |-> {}, meta |-> {}]).tbl

\* C3: the intervals of the stored rows of one key are pairwise disjoint.
C3_NonOverlap ==
    \A r1 \in committed_tbl, r2 \in committed_tbl :
        (r1 # r2 /\ r1.k = r2.k)
            => ~\E d \in Dates : Covers(r1, d) /\ Covers(r2, d)

\* C3 witness: a closed row of a key meets the open row that replaced it.
C3_Witness ==
    \E r1 \in committed_tbl, r2 \in committed_tbl :
        /\ r1 # r2
        /\ r1.k = r2.k
        /\ r1.valid_from < r1.valid_to
        /\ r1.valid_to = r2.valid_from
        /\ r2.valid_to = NULLDATE

\* C4 (as claimed): no two stored rows of a key meet while carrying
\* NULL-safe equal values.
C4_NoAdjacentDuplicates ==
    \A r1 \in committed_tbl, r2 \in committed_tbl :
        (r1 # r2 /\ r1.k = r2.k /\ r1.valid_to = r2.valid_from)
            => r1.v # r2.v

\* C5 (as claimed): directly after a successful sync(D, S), get_data(D)
\* returns exactly the rows of S.
C5_PostCondition ==
    (pc = "idle" /\ result.status = "ok")
        => ReturnsExactly(tbl, result.date, SuppliedAt(supplied, result.date))

\* C6: a sync that raises leaves the versioned table and the metadata as
\* they were before the call, the stored state changes only in the step
\* that commits a whole sync, and between calls the connection sees the
\* committed state.
C6_Atomicity ==
    [][/\ (committed_tbl' # committed_tbl \/ committed_meta' # committed_meta)
            => (pc = "commit" /\ pc' = "idle" /\ result'.status = "ok")
       /\ pc = "except"
            => /\ pc' = "idle"
               /\ result' = NoResult("raised")
               /\ committed_tbl' = committed_tbl
               /\ committed_meta' = committed_meta
       /\ pc' = "idle" => (tbl' = committed_tbl' /\ meta' = committed_meta')
      ]_vars

\* C6 witness: a statement of a sync with a valid date has raised after the
\* sync wrote to the table.
C6_Witness ==
    pc = "except" /\ date \in Dates /\ tbl # committed_tbl

\* C7 (as claimed): a sync(D, S) that directly follows a successful
\* sync(D, S) leaves the table as it found it and counts every row of S as
\* unchanged and nothing else.
C7_Idempotence ==
    [][(pc = "commit" /\ again /\ pc' = "idle")
          => /\ tbl' = committed_tbl
             /\ result'.rows_unchanged = result'.rows_total
             /\ result'.rows_new = 0
             /\ result'.rows_changed = 0
             /\ result'.rows_deleted = 0
             /\ result'.rows_extended_back = 0
             /\ result'.rows_reappeared = 0
      ]_vars

\* C8: when every synced snapshot is the same set S, the table holds
\* exactly one row per key of S.
C8_Compression ==
    \A x \in supplied :
        get_record_count(committed_tbl) = Cardinality(x.s)

\* C8 witness: the same non-empty snapshot was synced for two dates, the
\* second by moving the stored row back, and one row is stored.
C8_Witness ==
    /\ pc = "idle"
    /\ Cardinality(supplied) >= 2
    /\ \A x \in supplied : x.s # {}
    /\ result.status = "ok"
    /\ result.rows_extended_back = 1
    /\ get_record_count(committed_tbl) = 1

\* C9 (as claimed): no sync whose classification binds fails (the only
\* failure left to it is a primary-key violation).
C9_NoConstraintViolation ==
    pc = "except" => ~ClassifyOk(date, columns)

\* Row i of the snapshot in flight re-syncs an already-synced date with
\* values that differ from the stored ones.
ResyncDifferent(i) ==
    /\ date \in get_synced_dates(committed_meta)
    /\ columns = ValueColumns
    /\ i \in incoming
    /\ \E r \in get_data_rows(committed_tbl, date) : r.k = i.k /\ r.v # i.v

\* C10 (as claimed): such a re-sync does not raise, counts the key in
\* rows_changed, and ends with the key returned once, with the new values.
C10_ResyncDifferentUpdates ==
    \A i \in incoming :
        ResyncDifferent(i)
            => /\ pc # "except"
               /\ pc = "commit"
                    => /\ i.k \in KeysOf(cls.changed_covered)
                                    \cup KeysOf(cls.insert_before_next)
                       /\ Cardinality({r \in get_data_rows(tbl, date) :
                                            r.k = i.k}) = 1
                       /\ \A r \in get_data_rows(tbl, date) :
                              r.k = i.k => r.v = i.v

\* Exactly one value column is NULL on one side and non-NULL on the other;
\* the other column is NULL-safe equal.
NullVersusValue(iv, sv) ==
    \E c \in {1, 2} :
        /\ (iv[c] = NULL) # (sv[c] = NULL)
        /\ iv[3 - c] = sv[3 - c]

\* C11 (as claimed): a key of the snapshot whose covering row differs from
\* it by NULL against a value is counted in rows_changed, its covering row
\* is closed at D and a row from D carries the incoming values, so that
\* get_data(D) shows the incoming values and earlier dates the old ones.
C11_NullVersusValueIsChange ==
    \A i \in incoming, r \in get_data_rows(committed_tbl, date) :
        (r.k = i.k /\ NullVersusValue(i.v, r.v) /\ columns = ValueColumns)
            => /\ pc # "except"
               /\ pc = "commit"
                    => /\ i.k \in KeysOf(cls.changed_covered)
                       /\ [r EXCEPT !.valid_to = date] \in tbl
                       /\ \E n \in tbl : /\ n.k = i.k
                                          /\ n.v = i.v
                                          /\ n.valid_from = date
                       /\ i \in get_data(tbl, date)
                       /\ \A d \in r.valid_from .. (date - 1) :
                              [k |-> r.k, v |-> r.v] \in get_data(tbl, d)

\* C12: a key of the snapshot whose covering row carries NULL-safe equal
\* values is counted in rows_unchanged, and the sync neither adds nor
\* alters a row of that key at any point.
C12_NullEqualsNull ==
    \A i \in incoming, r \in get_data_rows(committed_tbl, date) :
        (r.k = i.k /\ r.v = i.v)
            => /\ {x \in tbl : x.k = i.k} = {x \in committed_tbl : x.k = i.k}
               /\ pc \notin {"idle", "classify", "except"}
                    => /\ i.k \in KeysOf(cls.unchanged)
                       /\ i.k \notin KeysOf(cls.changed_covered)

\* C12 witness: a sync is about to commit for a key whose covering row and
\* incoming row both carry NULL in the price column.
C12_Witness ==
    /\ pc = "commit"
    /\ \E i \in incoming, r \in get_data_rows(committed_tbl, date) :
           r.k = i.k /\ r.v = i.v /\ i.v[2] = NULL

\* The stored rows that cover the date of the sync in flight and whose key
\* the snapshot in flight lacks.
Deleted ==
    {r \in committed_tbl : Covers(r, date) /\ r.k \notin KeysOf(incoming)}

\* C13: rows_deleted counts exactly those rows; the case 6 block does not
\* raise, and when the sync commits each of them ends at D, no row of its
\* key covers D and every date of [valid_from, D) is still covered.  An
\* empty snapshot makes every row covering D such a row.
C13_Deletion ==
    /\ pc = "case6" => Case6(tbl, meta, cls, date, incoming).ok
    /\ pc = "commit"
         => /\ SyncResult(cls, date, incoming).rows_deleted
                  = Cardinality(Deleted)
            /\ incoming = {} => Deleted = get_data_rows(committed_tbl, date)
            /\ \A r \in Deleted :
                  /\ [r EXCEPT !.valid_to = date] \in tbl
                  /\ \A x \in get_data_rows(tbl, date) : x.k # r.k
                  /\ \A d \in r.valid_from .. (date - 1) :
                         \E x \in get_data_rows(tbl, d) : x.k = r.k

\* C13 witness: a sync is about to commit the deletion of a key whose
\* covering row was closed already and started before D.
C13_Witness ==
    /\ pc = "commit"
    /\ \E r \in Deleted : r.valid_from < date /\ r.valid_to # NULLDATE

\* The already-synced dates after the date in flight that lie inside the
\* span of stored row r.
LaterSynced(r) ==
    {m \in get_synced_dates(committed_meta) :
        m > date /\ (r.valid_to = NULLDATE \/ m < r.valid_to)}

\* C14 (as claimed): when a deleted row spans later synced dates, the case
\* 6 block does not raise and at commit the key has exactly one new row,
\* with the deleted row's values, from the smallest such date M to the old
\* valid_to (unless a row of the key already started at M); the key is
\* absent at D and present at every synced date of [M, valid_to).
C14_DeletionReopen ==
    /\ pc = "case6" => Case6(tbl, meta, cls, date, incoming).ok
    /\ pc = "commit"
         => \A r \in Deleted :
              LaterSynced(r) # {}
                => /\ (\A x \in committed_tbl :
                          ~(x.k = r.k /\ x.valid_from = SetMin(LaterSynced(r))))
                        => {x \in tbl : /\ x.k = r.k
                                        /\ x \notin committed_tbl
                                        /\ x # [r EXCEPT !.valid_to = date]}
                             = {[k |-> r.k, v |-> r.v,
                                 valid_from |-> SetMin(LaterSynced(r)),
                                 valid_to |-> r.valid_to]}
                   /\ \A x \in get_data_rows(tbl, date) : x.k # r.k
                   /\ \A m \in LaterSynced(r) :
                          \E x \in get_data_rows(tbl, m) : x.k = r.k

\* C14 witness: a sync is about to commit a deletion whose row was
\* re-opened from a later synced date.
C14_Witness ==
    /\ pc = "commit"
    /\ \E r \in Deleted :
           /\ LaterSynced(r) # {}
           /\ [k |-> r.k, v |-> r.v,
               valid_from |-> SetMin(LaterSynced(r)),
               valid_to |-> r.valid_to] \in tbl \ committed_tbl

\* A key of the snapshot in flight with no committed row covering the date
\* and none starting after it.
NotCoveredNoNext(i) ==
    \A r \in committed_tbl :
        r.k = i.k => ~Covers(r, date) /\ r.valid_from <= date

\* The end date the claim names: the smallest already-synced date after
\* the date in flight at which no committed row covers the key.
R(i) ==
    LET open == {m \in get_synced_dates(committed_meta) :
                    /\ m > date
                    /\ ~\E r \in committed_tbl : r.k = i.k /\ Covers(r, m)}
    IN  IF open = {} THEN NULLDATE ELSE SetMin(open)

\* C15 (as claimed): a key of S with no stored row covering D and none
\* starting after D is inserted (the case 4 and case 5 blocks do not
\* raise) as exactly one row [D, R), and get_data(R) does not return it.
C15_EndDate ==
    \A i \in incoming :
        NotCoveredNoNext(i)
            => /\ pc = "case4" => Case4(tbl, meta, cls, date).ok
               /\ pc = "case5" => Case5(tbl, meta, cls, date, incoming).ok
               /\ pc = "commit"
                    => /\ {x \in tbl : x.k = i.k /\ x \notin committed_tbl}
                            = {[k |-> i.k, v |-> i.v, valid_from |-> date,
                                valid_to |-> R(i)]}
                       /\ R(i) # NULLDATE
                            => \A x \in get_data_rows(tbl, R(i)) : x.k # i.k

\* A key of the snapshot in flight with no committed row covering the date.
NotCovered(i) ==
    \A r \in committed_tbl : r.k = i.k => ~Covers(r, date)

\* The committed row of i's key with the smallest valid_from after the date
\* in flight (none or one, by the primary key).
NextRows(i) ==
    {r \in committed_tbl :
        /\ r.k = i.k
        /\ r.valid_from > date
        /\ \A q \in committed_tbl :
               (q.k = i.k /\ q.valid_from > date)
                   => r.valid_from <= q.valid_from}

RowsOfKey(t, key) == {x \in t : x.k = key}

\* C16 (as claimed): an uncovered key whose next row carries the incoming
\* values has that row's valid_from set to D (the case 3a block does not
\* raise), no row is inserted for the key, valid_to and values stay, and
\* the key counts as extended back, not as new.
C16_ExtendBack ==
    \A i \in incoming : \A n \in NextRows(i) :
        (NotCovered(i) /\ n.v = i.v)
            => /\ pc = "case3a" => Case3a(tbl, cls, date).ok
               /\ pc = "commit"
                    => /\ RowsOfKey(tbl, i.k)
                            = (RowsOfKey(committed_tbl, i.k) \ {n})
                                \cup {[n EXCEPT !.valid_from = date]}
                       /\ i.k \in KeysOf(cls.extend_back)
                       /\ i.k \notin KeysOf(cls.new_records)

\* C17 (as claimed): an uncovered key whose next row carries other values
\* gets exactly one new row [D, next.valid_from) with the incoming values
\* (the case 3b block does not raise), the next row stays, and the key
\* counts as changed.
C17_SplitBeforeNext ==
    \A i \in incoming : \A n \in NextRows(i) :
        (NotCovered(i) /\ n.v # i.v)
            => /\ pc = "case3b" => Case3b(tbl, cls, date).ok
               /\ pc = "commit"
                    => /\ RowsOfKey(tbl, i.k)
                            = RowsOfKey(committed_tbl, i.k)
                                \cup {[k |-> i.k, v |-> i.v,
                                       valid_from |-> date,
                                       valid_to |-> n.valid_from]}
                       /\ i.k \in KeysOf(cls.insert_before_next)

\* C18 (as claimed): a key of S whose covering row [a, b) at D carries
\* other values has that row closed at D and one row with the incoming
\* values inserted over [D, b) (the case 2 block does not raise), so the
\* dates of [a, D) keep the old values and D shows the new ones.
C18_ChangedInPlace ==
    \A i \in incoming : \A r \in get_data_rows(committed_tbl, date) :
        (r.k = i.k /\ r.v # i.v)
            => /\ pc = "case2" => Case2(tbl, cls, date).ok
               /\ pc = "commit"
                    => /\ RowsOfKey(tbl, i.k)
                            = (RowsOfKey(committed_tbl, i.k) \ {r})
                                \cup {[r EXCEPT !.valid_to = date],
                                      [k |-> i.k, v |-> i.v,
                                       valid_from |-> date,
                                       valid_to |-> r.valid_to]}
                       /\ \A d \in r.valid_from .. (date - 1) :
                              [k |-> r.k, v |-> r.v] \in get_data(tbl, d)
                       /\ i \in get_data(tbl, date)

\* A key of the snapshot in flight that was stored before and is gone: no
\* committed row covers the date or starts after it, and one ended by it.
Reappearing(i) ==
    /\ NotCoveredNoNext(i)
    /\ \E r \in committed_tbl :
           r.k = i.k /\ r.valid_to # NULLDATE /\ r.valid_to <= date

\* C19 (as claimed): a reappearing key counts in rows_reappeared and not
\* in rows_new, gets one new row starting at D (the case 4 block does not
\* raise), and its earlier rows stay, so the dates before D that were
\* uncovered remain uncovered.
C19_Reappearance ==
    \A i \in incoming :
        Reappearing(i)
            => /\ pc = "case4" => Case4(tbl, meta, cls, date).ok
               /\ pc \notin {"idle", "classify", "except"}
                    => /\ i.k \in KeysOf(cls.reappeared)
                       /\ i.k \notin KeysOf(cls.new_records)
               /\ pc = "commit"
                    => /\ RowsOfKey(committed_tbl, i.k) \subseteq tbl
                       /\ \E n \in tbl :
                             /\ n.k = i.k /\ n.v = i.v /\ n.valid_from = date
                             /\ RowsOfKey(tbl, i.k)
                                  = RowsOfKey(committed_tbl, i.k) \cup {n}
                             /\ n \notin committed_tbl
                       /\ \A d \in 1 .. (date - 1) :
                             (\A x \in get_data_rows(committed_tbl, d) : x.k # i.k)
                                 => \A x \in get_data_rows(tbl, d) : x.k # i.k

\* C20 (as claimed): a call that hands TypeError to its caller never
\* entered the transaction and leaves the versioned table, the metadata
\* and the registered relations as they were.
C20_UnsupportedInput ==
    [][(pc = "idle" /\ result'.status = "TypeError")
          => /\ pc' = "idle"
             /\ UNCHANGED <<tbl, meta, committed_tbl, committed_meta,
                            incoming, cls>>]_vars

\* C20 witness: a TypeError was returned on a table that holds rows and
\* synced dates.
C20_Witness ==
    /\ result.status = "TypeError"
    /\ pc = "idle"
    /\ committed_tbl # {}
    /\ committed_meta # {}

\* C21: the list get_synced_dates returns is strictly ascending (so free
\* of duplicates) and holds exactly the dates of the syncs that committed:
\* a re-sync replaces the date's row and a raising sync adds none.
C21_SyncMetadata ==
    LET l == get_synced_dates_list(committed_meta)
    IN  /\ \A a, b \in 1 .. Len(l) : a < b => l[a] < l[b]
        /\ {l[a] : a \in 1 .. Len(l)} = {x.d : x \in supplied}

\* C21 witness: two dates are synced, one of them was re-synced with an
\* empty snapshot, and the last call raised.
C21_Witness ==
    /\ pc = "idle"
    /\ result.status = "raised"
    /\ Cardinality(committed_meta) >= 2
    /\ \E x \in committed_meta, r \in committed_tbl :
           x.row_count = 0 /\ r.valid_from = x.as_of_date

\* C22: a get_data(D) call returns exactly the stored rows with
\* valid_from <= D and (valid_to > D or valid_to NULL), projected on key
\* and values, and changes neither the versioned table nor the metadata.
C22_ClosedOpenRead ==
    [][(pc = "idle" /\ result'.status = "data")
          => /\ result'.rows
                  = {[k |-> r.k, v |-> r.v] :
                        r \in {x \in tbl :
                                 /\ x.valid_from <= result'.date
                                 /\ (x.valid_to > result'.date
                                        \/ x.valid_to = NULLDATE)}}
             /\ UNCHANGED <<tbl, meta, committed_tbl, committed_meta>>]_vars

\* C22 witness: a read at a date where one stored row ends and another,
\* which is returned, starts.
C22_Witness ==
    /\ pc = "idle"
    /\ result.status = "data"
    /\ \E r \in tbl : r.valid_to = result.date /\ r.valid_from < result.date
    /\ \E r \in tbl : /\ r.valid_from = result.date
                       /\ [k |-> r.k, v |-> r.v] \in result.rows

\* The keys of the snapshot in flight by class, read off the committed
\* table: covered with equal / other values, uncovered with a next row of
\* equal / other values, reappearing, and never stored.
CoveredSame == {i \in incoming :
    \E r \in get_data_rows(committed_tbl, date) : r.k = i.k /\ r.v = i.v}

CoveredDiffer == {i \in incoming :
    \E r \in get_data_rows(committed_tbl, date) : r.k = i.k /\ r.v # i.v}

NextSame == {i \in incoming :
    NotCovered(i) /\ \E n \in NextRows(i) : n.v = i.v}

NextDiffer == {i \in incoming :
    NotCovered(i) /\ \E n \in NextRows(i) : n.v # i.v}

NeverStored == {i \in incoming : RowsOfKey(committed_tbl, i.k) = {}}

\* C23 (as claimed): the SyncResult of a sync that commits carries the
\* date, the number of incoming rows, rows_changed = covered keys with
\* other values + uncovered keys whose next row has other values, and for
\* every other counter the number of keys of its class.
C23_Statistics ==
    pc = "commit"
        => LET res == SyncResult(cls, date, incoming)
           IN  /\ res.date = date
               /\ res.rows_total = Cardinality(incoming)
               /\ res.rows_changed
                    = Cardinality(CoveredDiffer) + Cardinality(NextDiffer)
               /\ res.rows_unchanged = Cardinality(CoveredSame)
               /\ res.rows_extended_back = Cardinality(NextSame)
               /\ res.rows_reappeared
                    = Cardinality({i \in incoming : Reappearing(i)})
               /\ res.rows_new = Cardinality(NeverStored)

\* C24 (as claimed): a sync whose snapshot lacks a declared value column
\* gets through its classification statements and, when it commits, every
\* incoming key is stored at D with NULL in the missing columns.
C24_MissingValueColumn ==
    (columns # ValueColumns /\ date \in Dates)
        => /\ pc = "classify" => ClassifyOk(date, columns)
           /\ pc = "commit"
                => \A i \in incoming :
                      \E r \in get_data_rows(tbl, date) :
                          /\ r.k = i.k
                          /\ \A c \in ValueColumns \ columns : r.v[c] = NULL

\* C25: between two calls no scratch relation exists or is bound, whether
\* the last sync returned or raised, and the classification of a sync
\* never finds _covering, _next or _prev left over.
C25_ScratchLifecycle ==
    /\ pc = "idle" => scratch = {}
    /\ pc = "classify" => TempTables \cap scratch = {}

\* C25 witness: a sync raised on a table that holds rows of an earlier,
\* committed sync, and the connection is back between two calls.
C25_Witness ==
    /\ pc = "idle"
    /\ result.status = "raised"
    /\ committed_tbl # {}
    /\ scratch = {}

\* C26: a sync that commits leaves every stored row in place with its key
\* and values, either untouched, or with valid_to set to D, or with
\* valid_from moved back to D; the number of rows does not go down.
C26_RowLifecycle ==
    pc = "commit"
        => /\ \A r \in committed_tbl :
                 \/ r \in tbl
                 \/ [r EXCEPT !.valid_to = date] \in tbl
                 \/ date < r.valid_from
                      /\ [r EXCEPT !.valid_from = date] \in tbl
           /\ get_record_count(tbl) >= get_record_count(committed_tbl)

\* C26 witness: a sync is about to commit after closing a stored row and
\* adding one.
C26_Witness ==
    /\ pc = "commit"
    /\ \E r \in committed_tbl :
           r \notin tbl /\ [r EXCEPT !.valid_to = date] \in tbl
    /\ get_record_count(tbl) > get_record_count(committed_tbl)

\* ------------------------------------------------ two tables, one database
\* Two SCDTable instances on the same database file with different table
\* names.  Every variable is here a function of the table name, incoming
\* and cls of the connection; supplied[n] is the state the calls made on n
\* so far give when run alone, with their number.
Tables == {"table1", "table2"}

MaxCalls == 2

\* Both instances working through one connection.
Conn_shared(n) == "table1"

\* Each instance opens its own connection, which holds its scratch
\* relations.
Conn(n) == n

InitTwo ==
    /\ tbl = [n \in Tables |-> {}]
    /\ meta = [n \in Tables |-> {}]
    /\ committed_tbl = [n \in Tables |-> {}]
    /\ committed_meta = [n \in Tables |-> {}]
    /\ pc = [n \in Tables |-> "idle"]
    /\ date = [n \in Tables |-> NULLDATE]
    /\ incoming = [n \in Tables |-> {}]
    /\ cls = [n \in Tables |-> NoClass]
    /\ result = NoResult("none")
    /\ supplied = [n \in Tables |-> [calls |-> 0, tbl |-> {}, meta |-> {}]]
    /\ again = FALSE
    /\ columns = ValueColumns
    /\ scratch = {}
    /\ presence = {}
    /\ committed_presence = {}

\* sync(date, df) on table n up to BEGIN TRANSACTION.
TwoSyncCall(n, D, S) ==
    /\ pc[n] = "idle"
    /\ UNCHANGED <<presence, committed_presence>>
    /\ supplied[n].calls < MaxCalls
    /\ date' = [date EXCEPT ![n] = D]
    /\ incoming' = [incoming EXCEPT ![Conn(n)] = S]
    /\ supplied' = [supplied EXCEPT ![n] =
            [calls |-> @.calls + 1,
             tbl |-> SyncFn(@.tbl, @.meta, D, S).tbl,
             meta |-> SyncFn(@.tbl, @.meta, D, S).meta]]
    /\ pc' = [pc EXCEPT ![n] = "classify"]
    /\ UNCHANGED <<tbl, meta, committed_tbl, committed_meta, cls, result, again,
                   columns, scratch>>

\* The classification statements of the sync on table n.
TwoClassifyStep(n) ==
    /\ pc[n] = "classify"
    /\ UNCHANGED <<presence, committed_presence>>
    /\ cls' = [cls EXCEPT ![Conn(n)] =
                  Classify(tbl[n], date[n], incoming[Conn(n)])]
    /\ pc' = [pc EXCEPT ![n] = "case2"]
    /\ UNCHANGED <<tbl, meta, committed_tbl, committed_meta, date, incoming, result,
                   supplied, again, columns, scratch>>

\* Case 2 of the sync on table n.
TwoCase2Step(n) ==
    /\ pc[n] = "case2"
    /\ UNCHANGED <<presence, committed_presence>>
    /\ tbl' = [tbl EXCEPT ![n] = Case2(tbl[n], cls[Conn(n)], date[n]).tbl]
    /\ pc' = [pc EXCEPT ![n] =
                 IF Case2(tbl[n], cls[Conn(n)], date[n]).ok
                   THEN "case3a" ELSE "except"]
    /\ UNCHANGED <<meta, committed_tbl, committed_meta, date, incoming, cls, result,
                   supplied, again, columns, scratch>>

\* Case 3a of the sync on table n.
TwoCase3aStep(n) ==
    /\ pc[n] = "case3a"
    /\ UNCHANGED <<presence, committed_presence>>
    /\ tbl' = [tbl EXCEPT ![n] = Case3a(tbl[n], cls[Conn(n)], date[n]).tbl]
    /\ pc' = [pc EXCEPT ![n] =
                 IF Case3a(tbl[n], cls[Conn(n)], date[n]).ok
                   THEN "case3b" ELSE "except"]
    /\ UNCHANGED <<meta, committed_tbl, committed_meta, date, incoming, cls, result,
                   supplied, again, columns, scratch>>

\* Case 3b of the sync on table n.
TwoCase3bStep(n) ==
    /\ pc[n] = "case3b"
    /\ UNCHANGED <<presence, committed_presence>>
    /\ tbl' = [tbl EXCEPT ![n] = Case3b(tbl[n], cls[Conn(n)], date[n]).tbl]
    /\ pc' = [pc EXCEPT ![n] =
                 IF Case3b(tbl[n], cls[Conn(n)], date[n]).ok
                   THEN "case4" ELSE "except"]
    /\ UNCHANGED <<meta, committed_tbl, committed_meta, date, incoming, cls, result,
                   supplied, again, columns, scratch>>

\* Case 4 of the sync on table n.
TwoCase4Step(n) ==
    /\ pc[n] = "case4"
    /\ UNCHANGED <<presence, committed_presence>>
    /\ tbl' = [tbl EXCEPT ![n] = Case4(tbl[n], meta[n], cls[Conn(n)], date[n]).tbl]
    /\ pc' = [pc EXCEPT ![n] =
                 IF Case4(tbl[n], meta[n], cls[Conn(n)], date[n]).ok
                   THEN "case5" ELSE "except"]
    /\ UNCHANGED <<meta, committed_tbl, committed_meta, date, incoming, cls, result,
                   supplied, again, columns, scratch>>

\* Case 5 of the sync on table n.
TwoCase5Step(n) ==
    /\ pc[n] = "case5"
    /\ UNCHANGED <<presence, committed_presence>>
    /\ tbl' = [tbl EXCEPT ![n] = Case5(tbl[n], meta[n], cls[Conn(n)], date[n], incoming[Conn(n)]).tbl]
    /\ pc' = [pc EXCEPT ![n] =
                 IF Case5(tbl[n], meta[n], cls[Conn(n)], date[n], incoming[Conn(n)]).ok
                   THEN "case6" ELSE "except"]
    /\ UNCHANGED <<meta, committed_tbl, committed_meta, date, incoming, cls, result,
                   supplied, again, columns, scratch>>

\* Case 6 of the sync on table n.
TwoCase6Step(n) ==
    /\ pc[n] = "case6"
    /\ UNCHANGED <<presence, committed_presence>>
    /\ tbl' = [tbl EXCEPT ![n] = Case6(tbl[n], meta[n], cls[Conn(n)], date[n], incoming[Conn(n)]).tbl]
    /\ pc' = [pc EXCEPT ![n] =
                 IF Case6(tbl[n], meta[n], cls[Conn(n)], date[n], incoming[Conn(n)]).ok
                   THEN "meta" ELSE "except"]
    /\ UNCHANGED <<meta, committed_tbl, committed_meta, date, incoming, cls, result,
                   supplied, again, columns, scratch>>

\* The metadata upsert of the sync on table n.
TwoMetaStep(n) ==
    /\ pc[n] = "meta"
    /\ UNCHANGED <<presence, committed_presence>>
    /\ meta' = [meta EXCEPT ![n] =
                   UpsertMeta(@, date[n], Cardinality(incoming[Conn(n)]))]
    /\ pc' = [pc EXCEPT ![n] = "commit"]
    /\ UNCHANGED <<tbl, committed_tbl, committed_meta, date, incoming, cls, result,
                   supplied, again, columns, scratch>>

\* DROP, COMMIT and unregister of the sync on table n.
TwoCommit(n) ==
    /\ pc[n] = "commit"
    /\ UNCHANGED <<presence, committed_presence>>
    /\ committed_tbl' = [committed_tbl EXCEPT ![n] = tbl[n]]
    /\ committed_meta' = [committed_meta EXCEPT ![n] = meta[n]]
    /\ incoming' = [incoming EXCEPT ![Conn(n)] = {}]
    /\ cls' = [cls EXCEPT ![Conn(n)] = NoClass]
    /\ date' = [date EXCEPT ![n] = NULLDATE]
    /\ pc' = [pc EXCEPT ![n] = "idle"]
    /\ UNCHANGED <<tbl, meta, result, supplied, again, columns, scratch>>

\* ROLLBACK, raise and unregister of the sync on table n.
TwoRollback(n) ==
    /\ pc[n] = "except"
    /\ UNCHANGED <<presence, committed_presence>>
    /\ tbl' = [tbl EXCEPT ![n] = committed_tbl[n]]
    /\ meta' = [meta EXCEPT ![n] = committed_meta[n]]
    /\ incoming' = [incoming EXCEPT ![Conn(n)] = {}]
    /\ cls' = [cls EXCEPT ![Conn(n)] = NoClass]
    /\ date' = [date EXCEPT ![n] = NULLDATE]
    /\ pc' = [pc EXCEPT ![n] = "idle"]
    /\ UNCHANGED <<committed_tbl, committed_meta, result, supplied, again, columns, scratch>>

NextTwo ==
    \/ \E n \in Tables, D \in Dates, S \in Snapshots : TwoSyncCall(n, D, S)
    \/ \E n \in Tables : TwoClassifyStep(n)
    \/ \E n \in Tables : TwoCase2Step(n)
    \/ \E n \in Tables : TwoCase3aStep(n)
    \/ \E n \in Tables : TwoCase3bStep(n)
    \/ \E n \in Tables : TwoCase4Step(n)
    \/ \E n \in Tables : TwoCase5Step(n)
    \/ \E n \in Tables : TwoCase6Step(n)
    \/ \E n \in Tables : TwoMetaStep(n)
    \/ \E n \in Tables : TwoCommit(n)
    \/ \E n \in Tables : TwoRollback(n)

SpecTwo == InitTwo /\ [][NextTwo]_vars

\* C27: whatever the interleaving of the statements of the syncs on the
\* two tables, each table and its metadata are, between its own calls,
\* what its own calls give when run alone in their order.
C27_DisjointTables ==
    \A n \in Tables :
        pc[n] = "idle"
            => /\ committed_tbl[n] = supplied[n].tbl
               /\ committed_meta[n] = supplied[n].meta
               /\ tbl[n] = supplied[n].tbl
               /\ meta[n] = supplied[n].meta

\* C27 witness: table1 is back between calls with rows stored while a
\* sync of table2, begun on other rows stored before, is in its writes.
C27_Witness ==
    /\ pc["table1"] = "idle"
    /\ committed_tbl["table1"] # {}
    /\ supplied["table1"].calls = MaxCalls
    /\ pc["table2"] \in {"case2", "case3a", "case3b", "case4", "case5", "case6"}
    /\ committed_tbl["table2"] # {}
    /\ committed_tbl["table2"] # committed_tbl["table1"]

\* The positions of a sync at which it writes the versioned table.
WritePcs == {"case2", "case3a", "case3b", "case4", "case5", "case6"}

\* C28: inside one sync the class sets, the deletion set included, are
\* read from the table before any write and not re-read afterwards; the
\* table is written only by the case blocks; the rows inserted by case 2
\* and case 6 end at the valid_to the closed row had before its closure;
\* and the metadata is written after the last table write, before COMMIT.
C28_Ordering ==
    [][/\ pc = "classify" => tbl = committed_tbl /\ meta = committed_meta
       /\ (pc = "classify" /\ pc' = "case2")
            => cls' = Classify(committed_tbl, date, incoming)
       /\ pc \in WritePcs \cup {"meta"} => cls' = cls
       /\ tbl' # tbl => pc \in WritePcs \cup {"except"}
       /\ (pc = "case2" /\ pc' = "case3a")
            => \A c \in cls.changed_covered :
                  /\ \E r \in tbl' : /\ r.k = c.k
                                      /\ r.valid_from = c.sm_valid_from
                                      /\ r.valid_to = date
                  /\ \E r \in tbl' \ tbl : /\ r.k = c.k
                                            /\ r.valid_from = date
                                            /\ r.valid_to = c.sm_valid_to
       /\ (pc = "case6" /\ pc' = "meta")
            => \A d \in cls.deletions :
                  /\ [d EXCEPT !.valid_to = date] \in tbl'
                  /\ \A r \in tbl' \ tbl :
                        (r.k = d.k /\ r.valid_from # d.valid_from)
                            => r.valid_to = d.valid_to
       /\ meta' # meta
            => \/ pc = "meta" /\ pc' = "commit" /\ tbl' = tbl
               \/ pc = "except"
       /\ pc \in {"meta", "commit"} => tbl' = tbl
       /\ committed_tbl' # committed_tbl \/ committed_meta' # committed_meta
            => pc = "commit" /\ date \in get_synced_dates(meta)
      ]_vars

\* C28 witness: a sync that closed a changed row and inserted its
\* successor has written its metadata and is about to commit.
C28_Witness ==
    /\ pc = "commit"
    /\ cls.changed_covered # {}
    /\ tbl # committed_tbl
    /\ meta # committed_meta

\* C29: the seven classes of a sync are pairwise disjoint in their keys;
\* a key with a covering row is in neither _next nor _prev, and a key of
\* _next is not in _prev.
C29_MutualExclusion ==
    LET classes == <<KeysOf(cls.unchanged), KeysOf(cls.changed_covered),
                     KeysOf(cls.extend_back), KeysOf(cls.insert_before_next),
                     KeysOf(cls.reappeared), KeysOf(cls.new_records),
                     KeysOf(cls.deletions)>>
    IN  /\ \A a, b \in 1 .. 7 : a < b => classes[a] \cap classes[b] = {}
        /\ CoveredKeys(cls.covering)
              \cap (KeysOf(cls.next) \cup KeysOf(cls.prev)) = {}
        /\ KeysOf(cls.next) \cap KeysOf(cls.prev) = {}

\* C29 witness: a classified key has both an earlier, ended row and a
\* later row, and is in _next only.
C29_Witness ==
    /\ pc = "case2"
    /\ cls.next # {}
    /\ \E i \in incoming, r \in committed_tbl :
           r.k = i.k /\ r.valid_to # NULLDATE /\ r.valid_to <= date

\* C30: for an uncovered key with stored rows starting after D, _next
\* holds exactly one row of the key, the one with the smallest such
\* valid_from, and at commit the key's rows differ from before at most by
\* that row being moved back to D or by one row inserted in front of it.
C30_ChoiceOfNext ==
    \A i \in incoming : \A n \in NextRows(i) :
        NotCovered(i)
            => /\ pc \in WritePcs \cup {"meta", "commit"}
                    => {x \in cls.next : x.k = i.k}
                         = {[k |-> i.k, i_v |-> i.v,
                             sm_valid_from |-> n.valid_from,
                             sm_valid_to |-> n.valid_to, sm_v |-> n.v]}
               /\ pc = "commit"
                    => \/ RowsOfKey(tbl, i.k) = RowsOfKey(committed_tbl, i.k)
                       \/ RowsOfKey(tbl, i.k)
                             = (RowsOfKey(committed_tbl, i.k) \ {n})
                                 \cup {[n EXCEPT !.valid_from = date]}
                       \/ RowsOfKey(tbl, i.k)
                             = RowsOfKey(committed_tbl, i.k)
                                 \cup {[k |-> i.k, v |-> i.v,
                                        valid_from |-> date,
                                        valid_to |-> n.valid_from]}

\* C30 witness: a sync about to commit has written the table for a key
\* that had two stored rows starting after D.
C30_Witness ==
    /\ pc = "commit"
    /\ tbl # committed_tbl
    /\ \E i \in incoming :
           /\ NotCovered(i)
           /\ Cardinality({r \in committed_tbl :
                               r.k = i.k /\ r.valid_from > date}) >= 2

\* C31 (as claimed): in a sync that commits the five counters of incoming
\* rows add up to rows_total and every incoming key is in exactly one of
\* the five classes.
C31_ExhaustiveClassification ==
    pc = "commit"
        => LET res == SyncResult(cls, date, incoming)
               classes == <<KeysOf(cls.new_records),
                            KeysOf(cls.changed_covered)
                                \cup KeysOf(cls.insert_before_next),
                            KeysOf(cls.unchanged), KeysOf(cls.extend_back),
                            KeysOf(cls.reappeared)>>
           IN  /\ res.rows_new + res.rows_changed + res.rows_unchanged
                     + res.rows_extended_back + res.rows_reappeared
                    = res.rows_total
               /\ \A i \in incoming :
                      Cardinality({a \in 1 .. 5 : i.k \in classes[a]}) = 1

\* C32 (as claimed): every committed row is open-ended or has
\* valid_from < valid_to.
C32_NonEmptyIntervals ==
    \A r \in committed_tbl :
        r.valid_to = NULLDATE \/ r.valid_from < r.valid_to

\* C33: with strictly increasing dates and no NULLs, for every synced date
\* get_data returns exactly the snapshot supplied for it, no two rows of a
\* key overlap, and no two rows of a key that meet carry equal values.
C33_InOrderFidelity ==
    /\ \A x \in supplied :
           /\ x.d \in get_synced_dates(committed_meta)
           /\ get_data(committed_tbl, x.d) = x.s
           /\ Cardinality(get_data_rows(committed_tbl, x.d)) = Cardinality(x.s)
    /\ \A r1 \in committed_tbl, r2 \in committed_tbl :
           (r1 # r2 /\ r1.k = r2.k)
               => /\ \A d \in Dates : ~(Covers(r1, d) /\ Covers(r2, d))
                  /\ r1.valid_to = r2.valid_from => r1.v # r2.v

\* C33 witness: three dates were synced in order, the key present, absent
\* and present again.
C33_Witness ==
    /\ pc = "idle"
    /\ \E x, y, z \in supplied :
           /\ x.d < y.d /\ y.d < z.d
           /\ x.s # {} /\ y.s = {} /\ z.s # {}

\* C34: while a sync writes, every committed row that ended by D and every
\* committed row of a key absent from S that does not cover D is still
\* stored as it was; a committed row that is no longer stored as it was
\* covers D or is the earliest later row of an uncovered key of S.
C34_FrameOfSync ==
    pc \in WritePcs \cup {"meta", "commit"}
        => \A r \in committed_tbl :
              /\ (r.valid_to # NULLDATE /\ r.valid_to <= date) => r \in tbl
              /\ (r.k \notin KeysOf(incoming) /\ ~Covers(r, date)) => r \in tbl
              /\ r \notin tbl
                   => \/ Covers(r, date)
                      \/ \E i \in incoming :
                            /\ i.k = r.k
                            /\ NotCovered(i)
                            /\ r \in NextRows(i)

\* C34 witness: a sync about to commit has altered a stored row of a key
\* that also has a row ended by D.
C34_Witness ==
    /\ pc = "commit"
    /\ \E r \in committed_tbl, q \in committed_tbl :
           /\ r.k = q.k
           /\ r.valid_to # NULLDATE /\ r.valid_to <= date
           /\ r.valid_from < r.valid_to
           /\ q \notin tbl

\* C35: every committed row starts at a synced date and, unless it is
\* open-ended, ends at one.
C35_EndpointsSynced ==
    \A r \in committed_tbl :
        /\ r.valid_from \in get_synced_dates(committed_meta)
        /\ r.valid_to # NULLDATE
             => r.valid_to \in get_synced_dates(committed_meta)

\* C35 witness: with a date left unsynced between two synced ones, a
\* committed row spans from the earlier to the later.
C35_Witness ==
    /\ pc = "idle"
    /\ \E r \in committed_tbl, d \in Dates :
           /\ r.valid_from < d /\ d < r.valid_to
           /\ d \notin get_synced_dates(committed_meta)

\* --------------------------------------------------------- SecurityMasterDB
\* The strict-coverage variant: valid_to is NOT NULL and a business
\* calendar gives the end of a newly inserted row.  tbl is security_master,
\* meta is sync_metadata, presence is security_presence; the value columns
\* are compared as in same_expr, two of them standing for the eight.

\* business_dates: the dates of Dates, then one day off the calendar, then
\* the calendar's last date.
BusinessDates == [i \in 1 .. (MaxDate + 1) |-> IF i <= MaxDate THEN i ELSE MaxDate + 2]

\* The dates a caller may hand to SecurityMasterDB.sync.
CallDates == 1 .. (MaxDate + 2)

\* A next_biz that wraps around to the calendar's first date.
next_biz_wrap(D) ==
    IF \E i \in DOMAIN BusinessDates : BusinessDates[i] = D
      THEN [ok |-> TRUE, date |-> BusinessDates[1]]
      ELSE [ok |-> FALSE, date |-> NULLDATE]

\* next_biz: ValueError when the date is not in the calendar or is its last
\* date, else the following calendar entry.
next_biz(D) ==
    IF ~\E i \in DOMAIN BusinessDates : BusinessDates[i] = D
      THEN [ok |-> FALSE, date |-> NULLDATE]
      ELSE LET idx == CHOOSE i \in DOMAIN BusinessDates : BusinessDates[i] = D
           IN  IF idx + 1 > Len(BusinessDates)
                 THEN [ok |-> FALSE, date |-> NULLDATE]
                 ELSE [ok |-> TRUE, date |-> BusinessDates[idx + 1]]

\* valid_from <= D AND valid_to > D
sm_covers(r, D) == r.valid_from <= D /\ r.valid_to > D

\* get_data of SecurityMasterDB.
sm_get_data_rows(t, D) == {r \in t : sm_covers(r, D)}

\* CREATE TEMP TABLE _covering of SecurityMasterDB.sync.
sm_covering(t, D, S) ==
    {[k |-> i.k, i_v |-> i.v, sm_valid_from |-> r.valid_from,
      sm_valid_to |-> r.valid_to, sm_v |-> r.v] :
        <<i, r>> \in {p \in S \X t : p[1].k = p[2].k /\ sm_covers(p[2], D)}}
    \cup
    {[k |-> i.k, i_v |-> i.v, sm_valid_from |-> NULLDATE,
      sm_valid_to |-> NULLDATE, sm_v |-> NullValues] :
        i \in {j \in S : \A r \in t : ~(r.k = j.k /\ sm_covers(r, D))}}

\* CREATE TEMP TABLE _next of SecurityMasterDB.sync: the same query as in
\* SCDTable.
sm_next(t, D, S, cov) == next(t, D, S, cov)

\* The incoming rows _prev is built for: not covered, not in _next, with a
\* stored row that ended by D.
sm_prev_keys(t, D, S, cov, nxt) ==
    {j \in S : /\ j.k \notin CoveredKeys(cov)
               /\ j.k \notin KeysOf(nxt)
               /\ \E r \in t : r.k = j.k /\ r.valid_to <= D}

\* The stored rows of i's key that ended by D with the greatest valid_to:
\* DISTINCT ON ... ORDER BY valid_to DESC returns one of them.
sm_latest(t, D, i) ==
    {r \in t : /\ r.k = i.k
               /\ r.valid_to <= D
               /\ \A q \in t : (q.k = i.k /\ q.valid_to <= D)
                                   => q.valid_to <= r.valid_to}

\* CREATE TEMP TABLE _prev: every table the query may produce.
sm_prev(t, D, S, cov, nxt) ==
    {{[k |-> i.k, i_v |-> i.v, sm_valid_from |-> f[i].valid_from,
       sm_valid_to |-> f[i].valid_to, sm_v |-> f[i].v] :
          i \in sm_prev_keys(t, D, S, cov, nxt)} :
        f \in {g \in [sm_prev_keys(t, D, S, cov, nxt) -> t] :
                  \A i \in sm_prev_keys(t, D, S, cov, nxt) :
                      g[i] \in sm_latest(t, D, i)}}

\* FROM _prev WHERE sm_valid_to < DATE date OR NOT (same_expr)
insert_after_prev(prv, D) ==
    {p \in prv :
        Or3(IF p.sm_valid_to < D THEN "T" ELSE "F",
            Not3(same_expr(p.i_v, p.sm_v))) = "T"}

\* FROM _prev WHERE sm_valid_to = DATE date AND (same_expr)
extend_forward(prv, D) == {p \in prv : p.sm_valid_to = D /\ IsSame(p)}

\* The classification reads of SecurityMasterDB.sync for one outcome prv
\* of the _prev query.
SMClassify(t, D, S, prv) ==
    LET cov == sm_covering(t, D, S)
        nxt == sm_next(t, D, S, cov)
    IN  [covering |-> cov,
         next |-> nxt,
         prev |-> prv,
         unchanged |-> {c \in cov : c.sm_valid_from # NULLDATE /\ IsSame(c)},
         changed_covered |->
             {c \in cov : c.sm_valid_from # NULLDATE /\ IsNotSame(c)},
         extend_back |-> {n \in nxt : IsSame(n)},
         insert_before_next |-> {n \in nxt : IsNotSame(n)},
         extend_forward |-> extend_forward(prv, D),
         insert_after_prev |-> insert_after_prev(prv, D),
         new_securities |->
             {i \in S : /\ i.k \notin CoveredKeys(cov)
                        /\ i.k \notin KeysOf(nxt)
                        /\ i.k \notin KeysOf(prv)},
         deletions |-> {r \in t : sm_covers(r, D) /\ r.k \notin KeysOf(S)}]

\* INSERT OR REPLACE INTO security_presence SELECT security_id, date
RecordPresence(p, D, S) == p \cup {[k |-> i.k, as_of_date |-> D] : i \in S}

\* Cases 2b, 3a and 3b are the statements of SCDTable's cases 2, 3a, 3b.
SMCase2b(t, c, D) == Case2(t, c, D)

SMCase3a(t, c, D) == Case3a(t, c, D)

SMCase3b(t, c, D) == Case3b(t, c, D)

\* Case 4a: UPDATE valid_to of the previous row to the next business day.
SMCase4a(t, c, D, nb) ==
    IF c.extend_forward = {} THEN [ok |-> TRUE, tbl |-> t]
    ELSE [ok |-> TRUE,
          tbl |-> {IF \E p \in c.prev : /\ r.k = p.k
                                         /\ r.valid_from = p.sm_valid_from
                                         /\ p.sm_valid_to = D
                                         /\ IsSame(p)
                     THEN [r EXCEPT !.valid_to = nb] ELSE r : r \in t}]

\* Case 4b: insert [D, next business day) after a previous row.
SMCase4b(t, c, D, nb) ==
    IF c.insert_after_prev = {} THEN [ok |-> TRUE, tbl |-> t]
    ELSE Insert(t,
            {<<p, [k |-> p.k, v |-> p.i_v, valid_from |-> D, valid_to |-> nb]>> :
                p \in insert_after_prev(c.prev, D)})

\* Case 1: insert [D, next business day) for the new securities.
SMCase1(t, c, D, nb, S) ==
    IF c.new_securities = {} THEN [ok |-> TRUE, tbl |-> t]
    ELSE Insert(t,
            {<<i, [k |-> i.k, v |-> i.v, valid_from |-> D, valid_to |-> nb]>> :
                i \in {j \in S : /\ j.k \notin CoveredKeys(c.covering)
                                 /\ j.k \notin KeysOf(c.next)
                                 /\ j.k \notin KeysOf(c.prev)}})

\* The dates the re-open joins a deleted row with: later dates inside its
\* span at which security_presence holds the key.
PresenceDates(p, d, D) ==
    {x.as_of_date : x \in
        {y \in p : /\ y.k = d.k
                   /\ y.as_of_date > D
                   /\ y.as_of_date < d.valid_to}}

\* Case 6: close the deleted rows at D, then re-open each from its
\* earliest later presence date unless a row covers or starts at it.
SMCase6(t, p, c, D, S) ==
    IF c.deletions = {} THEN [ok |-> TRUE, tbl |-> t]
    ELSE
      LET closed == {IF sm_covers(r, D) /\ r.k \notin KeysOf(S)
                       THEN [r EXCEPT !.valid_to = D] ELSE r : r \in t}
          src == {d \in c.deletions :
                    /\ PresenceDates(p, d, D) # {}
                    /\ ~\E s \in closed :
                          /\ s.k = d.k
                          /\ sm_covers(s, SetMin(PresenceDates(p, d, D)))
                    /\ ~\E s \in closed :
                          /\ s.k = d.k
                          /\ s.valid_from = SetMin(PresenceDates(p, d, D))}
      IN  Insert(closed,
            {<<d, [k |-> d.k, v |-> d.v,
                   valid_from |-> SetMin(PresenceDates(p, d, D)),
                   valid_to |-> d.valid_to]>> :
                d \in src})

\* The SyncResult of SecurityMasterDB.sync.
SMSyncResult(c, D, S) ==
    [status |-> "ok", date |-> D, rows_total |-> Cardinality(S),
     rows_new |-> Cardinality(c.new_securities),
     rows_changed |-> Cardinality(c.changed_covered)
                         + Cardinality(c.insert_before_next)
                         + Cardinality(c.insert_after_prev),
     rows_deleted |-> Cardinality(c.deletions),
     rows_unchanged |-> Cardinality(c.unchanged),
     rows_extended_back |-> Cardinality(c.extend_back),
     rows_extended_forward |-> Cardinality(c.extend_forward)]

SMNoClass == SMClassify({}, 1, {}, {})

\* A database opened on an empty file with the calendar BusinessDates.
InitSM ==
    /\ tbl = {}
    /\ meta = {}
    /\ presence = {}
    /\ committed_tbl = {}
    /\ committed_meta = {}
    /\ committed_presence = {}
    /\ pc = "idle"
    /\ date = NULLDATE
    /\ incoming = {}
    /\ cls = SMNoClass
    /\ result = NoResult("none")
    /\ supplied = {}
    /\ again = FALSE
    /\ columns = ValueColumns
    /\ scratch = {}

\* sync(date, df) when next_biz(date) returns: register _incoming and BEGIN.
SMSyncCall(D, S) ==
    /\ pc = "idle"
    /\ next_biz(D).ok
    /\ scratch' = scratch \cup {"_incoming"}
    /\ date' = D
    /\ incoming' = S
    /\ cls' = SMNoClass
    /\ result' = NoResult("none")
    /\ pc' = "presence"
    /\ UNCHANGED <<tbl, meta, presence, committed_tbl, committed_meta,
                   committed_presence, supplied, again, columns>>

\* sync(date, df) when next_biz(date) raises: the ValueError leaves sync at
\* its first statement.
SMSyncRaises(D) ==
    /\ pc = "idle"
    /\ ~next_biz(D).ok
    /\ result' = NoResult("ValueError")
    /\ UNCHANGED <<tbl, meta, presence, committed_tbl, committed_meta,
                   committed_presence, pc, date, incoming, cls, supplied,
                   again, columns, scratch>>

\* The first statement of the transaction records the snapshot's keys.
SMPresenceStep ==
    /\ pc = "presence"
    /\ presence' = RecordPresence(presence, date, incoming)
    /\ pc' = "classify"
    /\ UNCHANGED <<tbl, meta, committed_tbl, committed_meta,
                   committed_presence, date, incoming, cls, result, supplied,
                   again, columns, scratch>>

\* The three CREATE TEMP TABLE statements and the classification reads.
SMClassifyStep ==
    /\ pc = "classify"
    /\ IF TempTables \cap scratch = {}
         THEN /\ \E prv \in sm_prev(tbl, date, incoming,
                                    sm_covering(tbl, date, incoming),
                                    sm_next(tbl, date, incoming,
                                            sm_covering(tbl, date, incoming))) :
                     cls' = SMClassify(tbl, date, incoming, prv)
              /\ scratch' = scratch \cup TempTables
              /\ pc' = "case2b"
         ELSE cls' = cls /\ scratch' = scratch /\ pc' = "except"
    /\ UNCHANGED <<tbl, meta, presence, committed_tbl, committed_meta,
                   committed_presence, date, incoming, result, supplied,
                   again, columns>>

\* Case 2b.
SMCase2bStep ==
    /\ pc = "case2b"
    /\ tbl' = SMCase2b(tbl, cls, date).tbl
    /\ pc' = IF SMCase2b(tbl, cls, date).ok THEN "case3a" ELSE "except"
    /\ UNCHANGED <<meta, presence, committed_tbl, committed_meta,
                   committed_presence, date, incoming, cls, result, supplied,
                   again, columns, scratch>>

\* Case 3a.
SMCase3aStep ==
    /\ pc = "case3a"
    /\ tbl' = SMCase3a(tbl, cls, date).tbl
    /\ pc' = IF SMCase3a(tbl, cls, date).ok THEN "case3b" ELSE "except"
    /\ UNCHANGED <<meta, presence, committed_tbl, committed_meta,
                   committed_presence, date, incoming, cls, result, supplied,
                   again, columns, scratch>>

\* Case 3b.
SMCase3bStep ==
    /\ pc = "case3b"
    /\ tbl' = SMCase3b(tbl, cls, date).tbl
    /\ pc' = IF SMCase3b(tbl, cls, date).ok THEN "case4a" ELSE "except"
    /\ UNCHANGED <<meta, presence, committed_tbl, committed_meta,
                   committed_presence, date, incoming, cls, result, supplied,
                   again, columns, scratch>>

\* Case 4a.
SMCase4aStep ==
    /\ pc = "case4a"
    /\ tbl' = SMCase4a(tbl, cls, date, next_biz(date).date).tbl
    /\ pc' = IF SMCase4a(tbl, cls, date, next_biz(date).date).ok THEN "case4b" ELSE "except"
    /\ UNCHANGED <<meta, presence, committed_tbl, committed_meta,
                   committed_presence, date, incoming, cls, result, supplied,
                   again, columns, scratch>>

\* Case 4b.
SMCase4bStep ==
    /\ pc = "case4b"
    /\ tbl' = SMCase4b(tbl, cls, date, next_biz(date).date).tbl
    /\ pc' = IF SMCase4b(tbl, cls, date, next_biz(date).date).ok THEN "case1" ELSE "except"
    /\ UNCHANGED <<meta, presence, committed_tbl, committed_meta,
                   committed_presence, date, incoming, cls, result, supplied,
                   again, columns, scratch>>

\* Case 1.
SMCase1Step ==
    /\ pc = "case1"
    /\ tbl' = SMCase1(tbl, cls, date, next_biz(date).date, incoming).tbl
    /\ pc' = IF SMCase1(tbl, cls, date, next_biz(date).date, incoming).ok THEN "case6" ELSE "except"
    /\ UNCHANGED <<meta, presence, committed_tbl, committed_meta,
                   committed_presence, date, incoming, cls, result, supplied,
                   again, columns, scratch>>

\* Case 6.  When the re-open fails _deletions stays registered.
SMCase6Step ==
    /\ pc = "case6"
    /\ tbl' = SMCase6(tbl, presence, cls, date, incoming).tbl
    /\ pc' = IF SMCase6(tbl, presence, cls, date, incoming).ok
               THEN "meta" ELSE "except"
    /\ scratch' = IF SMCase6(tbl, presence, cls, date, incoming).ok
                    THEN scratch
                    ELSE scratch \cup {"_deletions"}
    /\ UNCHANGED <<meta, presence, committed_tbl, committed_meta,
                   committed_presence, date, incoming, cls, result, supplied,
                   again, columns>>

\* INSERT OR REPLACE INTO sync_metadata.
SMMetaStep ==
    /\ pc = "meta"
    /\ meta' = UpsertMeta(meta, date, Cardinality(incoming))
    /\ pc' = "commit"
    /\ UNCHANGED <<tbl, presence, committed_tbl, committed_meta,
                   committed_presence, date, incoming, cls, result, supplied,
                   again, columns, scratch>>

\* The DROP TABLE statements, COMMIT, the finally clause and the return.
SMCommit ==
    /\ pc = "commit"
    /\ scratch' = scratch \ (TempTables \cup {"_incoming"})
    /\ committed_tbl' = tbl
    /\ committed_meta' = meta
    /\ committed_presence' = presence
    /\ result' = SMSyncResult(cls, date, incoming)
    /\ pc' = "idle"
    /\ date' = NULLDATE
    /\ incoming' = {}
    /\ cls' = SMNoClass
    /\ UNCHANGED <<tbl, meta, presence, supplied, again, columns>>

\* except: ROLLBACK and re-raise; finally: unregister _incoming.
SMRollback ==
    /\ pc = "except"
    /\ \E left \in SUBSET (scratch \cap {"_deletions"}) : scratch' = left
    /\ tbl' = committed_tbl
    /\ meta' = committed_meta
    /\ presence' = committed_presence
    /\ result' = NoResult("raised")
    /\ pc' = "idle"
    /\ date' = NULLDATE
    /\ incoming' = {}
    /\ cls' = SMNoClass
    /\ UNCHANGED <<committed_tbl, committed_meta, committed_presence,
                   supplied, again, columns>>

NextSM ==
    \/ \E D \in CallDates, S \in Snapshots : SMSyncCall(D, S)
    \/ \E D \in CallDates : SMSyncRaises(D)
    \/ SMPresenceStep
    \/ SMClassifyStep
    \/ SMCase2bStep
    \/ SMCase3aStep
    \/ SMCase3bStep
    \/ SMCase4aStep
    \/ SMCase4bStep
    \/ SMCase1Step
    \/ SMCase6Step
    \/ SMMetaStep
    \/ SMCommit
    \/ SMRollback

SpecSM == InitSM /\ [][NextSM]_vars

\* C36: SecurityMasterDB.sync with a date that is not in the business
\* calendar, or that is the calendar's last date, raises ValueError before
\* anything is registered or a transaction is begun: a call gets past its
\* first statement only with a calendar date that has a successor, and a
\* step that ends in ValueError leaves security_master, sync_metadata,
\* security_presence and the registered names as they were.
C36_CalendarPrecondition ==
    [][/\ (pc = "idle" /\ pc' # "idle")
             => \E i \in 1 .. (Len(BusinessDates) - 1) : BusinessDates[i] = date'
       /\ result'.status = "ValueError"
             => /\ pc = "idle" /\ pc' = "idle"
                /\ UNCHANGED <<tbl, meta, presence, committed_tbl,
                               committed_meta, committed_presence, scratch>>
      ]_vars

\* A ValueError was raised on a database that already holds rows.
C36_Witness ==
    /\ result.status = "ValueError"
    /\ pc = "idle"
    /\ committed_tbl # {}
    /\ committed_presence # {}

\* The keys of the snapshot being synced that have neither a covering row
\* nor a later row in the committed security_master.
NoCoveringNoLater ==
    {i \in incoming :
        \A r \in committed_tbl :
            r.k = i.k => ~sm_covers(r, date) /\ r.valid_from <= date}

\* The rows a sync about to commit has inserted: their (key, valid_from)
\* was not stored before.
InsertedRows ==
    {r \in tbl :
        \A q \in committed_tbl : ~(q.k = r.k /\ q.valid_from = r.valid_from)}

\* C37: strict coverage of SecurityMasterDB: after any sequence of
\* successful syncs every row of security_master has a non-NULL valid_to
\* strictly greater than its valid_from, and a row inserted for a key with
\* no covering and no later row spans exactly [D, next business day).
C37_StrictCoverage ==
    /\ \A r \in committed_tbl :
          r.valid_to # NULLDATE /\ r.valid_from < r.valid_to
    /\ pc = "commit" =>
          \A i \in NoCoveringNoLater, r \in InsertedRows :
              r.k = i.k => /\ r.valid_from = date
                           /\ r.valid_to = next_biz(date).date

\* The latest earlier rows of a key of the snapshot in flight: the
\* committed rows of the key that ended by the date, with the greatest
\* valid_to.
LatestEarlier(i) ==
    {r \in committed_tbl :
        /\ r.k = i.k
        /\ r.valid_to <= date
        /\ \A q \in committed_tbl :
              (q.k = i.k /\ q.valid_to <= date) => q.valid_to <= r.valid_to}

\* The keys the extend-forward branch is claimed for: no covering row, no
\* later row, the latest earlier row ends at the date with equal values.
ToExtendForward ==
    {i \in NoCoveringNoLater :
        /\ LatestEarlier(i) # {}
        /\ \A p \in LatestEarlier(i) : p.valid_to = date /\ p.v = i.v}

\* The keys the insert branch is claimed for: no covering row, no later
\* row, the latest earlier row ends before the date or has other values.
ToInsertAfterPrev ==
    {i \in NoCoveringNoLater :
        /\ LatestEarlier(i) # {}
        /\ \A p \in LatestEarlier(i) : p.valid_to < date \/ p.v # i.v}

\* C38: for a key of the snapshot with no covering row and no later row
\* whose latest earlier row ends at D with NULL-safe equal values, that
\* row's valid_to becomes the next business day, no row is inserted and
\* the key counts in rows_extended_forward; otherwise (the row ends before
\* D or the values differ) exactly one row [D, next business day) is
\* inserted and the key counts in rows_changed.  Neither branch raises.
C38_ExtendForward ==
    /\ \A i \in ToExtendForward :
          /\ pc = "case4a" => SMCase4a(tbl, cls, date, next_biz(date).date).ok
          /\ pc = "commit" =>
                /\ \A p \in LatestEarlier(i) :
                      [p EXCEPT !.valid_to = next_biz(date).date] \in tbl
                /\ \A r \in InsertedRows : r.k # i.k
    /\ \A i \in ToInsertAfterPrev :
          /\ pc = "case4b" => SMCase4b(tbl, cls, date, next_biz(date).date).ok
          /\ pc = "commit" =>
                /\ {r \in InsertedRows : r.k = i.k}
                      = {[k |-> i.k, v |-> i.v, valid_from |-> date,
                          valid_to |-> next_biz(date).date]}
                /\ LatestEarlier(i) \subseteq tbl
    /\ pc = "commit" =>
          /\ SMSyncResult(cls, date, incoming).rows_extended_forward
                = Cardinality(ToExtendForward)
          /\ SMSyncResult(cls, date, incoming).rows_changed
                >= Cardinality(ToInsertAfterPrev)

====
